---- MODULE Spec2Model ----
(***************************************************************************)
(* GameNerd chat microservice: the /chat handler (app/main.py) and the     *)
(* two-call Gatherer -> Composer service (app/api/openai_service.py).      *)
(*                                                                         *)
(* Text is modelled as a sequence of tokens.  A token is either one        *)
(* character that the code's string operations look at ("[", "]", "(",     *)
(* ")", a newline), or a run of characters that those operations treat as  *)
(* a unit (the URL scheme matched by http[s]?://, the phrases the Composer *)
(* searches for in either letter case, the "Error:" prefix, a fixed        *)
(* string of the program).  Python values that may be None are records     *)
(* with a type field.                                                      *)
(***************************************************************************)
EXTENDS Integers, Sequences, FiniteSets, TLC

\* ------------------------------------------------------------------ bounds

\* Concurrent request handlers (coroutines of handle_chat) that may be in flight.
MaxInFlight == 2
\* Chat requests accepted during one run of the model, handlers overlapping.
MaxRequests == 2
\* Chat requests accepted during one run of the model, one after another.
MaxSeqRequests == 6

Req == 1..MaxInFlight
Users == {"u1", "u2"}

\* ------------------------------------------------------- Python values

None == [type |-> "NoneType", text |-> <<>>]
Str(t) == [type |-> "str", text |-> t]
Truthy(v) == v.type = "str" /\ v.text # <<>>

Min(S) == CHOOSE x \in S : \A y \in S : x <= y

\* s[-n:] for n > 0
LastN(s, n) == IF Len(s) <= n THEN s ELSE SubSeq(s, Len(s) - n + 1, Len(s))

\* str.lower() on the tokens that carry letters the code compares
LowerToken(t) ==
  CASE t = "No Data Fetching" -> "no data fetching"
    [] t = " Is Required" -> " is required"
    [] t = "Error:" -> "error:"
    [] OTHER -> t

Lower(s) == [i \in 1..Len(s) |-> LowerToken(s[i])]

\* `pat in s`
Contains(s, pat) ==
  \E i \in 1..(Len(s) - Len(pat) + 1) : SubSeq(s, i, i + Len(pat) - 1) = pat

\* s.startswith(pat)
StartsWith(s, pat) == Len(s) >= Len(pat) /\ SubSeq(s, 1, Len(pat)) = pat

\* ------------------------------------------------------- Schema registry

TOOLS_AVAILABLE ==
  << "present_h2h_comparison", "display_standings_table", "show_match_schedule",
     "get_player_profile", "get_team_news" >>

TOOL_NAME_TO_COMPONENT_TYPE ==
  [n \in { "present_h2h_comparison", "display_standings_table", "show_match_schedule",
           "get_player_profile", "get_team_news" } |->
     CASE n = "present_h2h_comparison" -> "h2h_comparison_table"
       [] n = "display_standings_table" -> "standings_table"
       [] n = "show_match_schedule" -> "match_schedule_table"
       [] n = "get_player_profile" -> "player_profile_card"
       [] n = "get_team_news" -> "news_article_list"]

\* TOOL_NAME_TO_COMPONENT_TYPE.get(function_name, "generic_text")
ComponentTypeFor(name) ==
  IF name \in DOMAIN TOOL_NAME_TO_COMPONENT_TYPE
  THEN TOOL_NAME_TO_COMPONENT_TYPE[name] ELSE "generic_text"

\* ------------------------------------------------------- link stripping

IsScheme(t) == t \in {"http://", "https://"}

\* `.` of the pattern: any character but a newline, over s[a..b]
NoNewline(s, a, b) == \A x \in a..b : s[x] # "\n"

\* ends k of `.*?\)` once `\]\(http[s]?://` matched at j
LinkEnds(s, j) ==
  { k \in (j + 3)..Len(s) : s[k] = ")" /\ NoNewline(s, j + 3, k - 1) }

\* positions j of the `]` closing group 1 of a match that starts at i
LinkMids(s, i) ==
  { j \in (i + 1)..(Len(s) - 3) :
      /\ s[j] = "]" /\ s[j + 1] = "(" /\ IsScheme(s[j + 2])
      /\ NoNewline(s, i + 1, j - 1)
      /\ LinkEnds(s, j) # {} }

\* re.sub(r'\[(.*?)\]\(http[s]?://.*?\)', r'\1', s): leftmost match, both
\* `.*?` lazy, the scan resumes after the match
RECURSIVE StripFrom(_, _)
StripFrom(s, i) ==
  IF i > Len(s) THEN <<>>
  ELSE IF s[i] = "[" /\ LinkMids(s, i) # {}
       THEN LET j == Min(LinkMids(s, i))
                k == Min(LinkEnds(s, j))
            IN SubSeq(s, i + 1, j - 1) \o StripFrom(s, k + 1)
       ELSE <<s[i]>> \o StripFrom(s, i + 1)

StripLinks(s) == StripFrom(s, 1)

\* ------------------------------------------------------- json.loads

\* The text of tool_call.function.arguments: malformed, or a JSON object
\* written as the sequence of its members in the order they appear.
RECURSIVE LoadMembers(_)
LoadMembers(ms) ==
  IF ms = <<>> THEN <<>>
  ELSE LET rest == LoadMembers(SubSeq(ms, 1, Len(ms) - 1))
           m == ms[Len(ms)]
       IN [k \in (DOMAIN rest) \cup {m.key} |-> IF k = m.key THEN m.val ELSE rest[k]]

\* json.loads(arguments): a dict, a later member replacing an earlier one
\* of the same key; raises JSONDecodeError on malformed text
JsonLoads(arguments) ==
  IF arguments.wellformed
  THEN [raised |-> FALSE, value |-> LoadMembers(arguments.members), msg |-> <<>>]
  ELSE [raised |-> TRUE, value |-> <<>>, msg |-> <<"Expecting value">>]

\* ------------------------------------------------------- fixed strings

\* the default reply of final_response
DefaultReply ==
  <<"I'm sorry, I had trouble processing the sports information. Please try rephrasing your request.">>
AckReply == <<"Certainly! Here is the information you requested.">>
FallbackReply == <<"I've processed your request.">>
ComposeErrorPrefix ==
  <<"An unexpected server error occurred while formatting the response: ">>
GatherErrorPrefix ==
  <<"Error:", " Could not gather information due to an internal error: ">>
\* str(TypeError) of None[:200]
NotSubscriptableMsg == <<"'NoneType' object is not subscriptable">>
\* type(e).__name__ of the AttributeError of None.lower()
CriticalReply ==
  <<"A critical server error (AttributeError) occurred. Please try again later.">>

SentinelPhrase == <<"no data fetching", " is required">>
ShortPhrase == <<"no data fetching">>

\* ------------------------------------------------------- provider calls

NotGiven == [type |-> "NotGiven", names |-> <<>>]
NoTools == [type |-> "NoneType", names |-> <<>>]
ToolList(names) == [type |-> "list", names |-> names]

NoCall ==
  [model |-> "", system_prompt |-> "", history |-> <<>>, user |-> <<>>,
   tools |-> NotGiven, tool_choice |-> ""]

\* K of conversation_history[-6:]
CONTEXT_TURNS == 6

\* the chat.completions.create call of gather_real_time_data
GatherRequest(user_query, conversation_history) ==
  [model |-> "gpt-4o-search-preview", system_prompt |-> "gatherer",
   history |-> LastN(conversation_history, CONTEXT_TURNS), user |-> user_query,
   tools |-> NotGiven, tool_choice |-> "NotGiven"]

\* mutant of Subscriptable: the logging slice gone, a None content is returned
SubscriptableAny(v) == TRUE

\* gathered_data[:200] raises TypeError unless gathered_data is a str
Subscriptable(v) == v.type = "str"

GatherError(msg) == Str(GatherErrorPrefix \o msg)

\* gather_real_time_data from the await on: the value it returns for an
\* outcome of the provider call
gather_real_time_data(out) ==
  IF out.kind = "raise" THEN GatherError(out.msg)
  ELSE IF ~Subscriptable(out.content) THEN GatherError(NotSubscriptableMsg)
  ELSE out.content

\* the condition of the no-data branch
NoDataMode(gathered) ==
  \/ Contains(Lower(gathered), SentinelPhrase)
  \/ StartsWith(gathered, <<"Error:">>)

\* mutant of ToolsAttached: tools withheld only after a Gatherer error
ToolsAttachedUnlessError(gathered) == ~StartsWith(gathered, <<"Error:">>)

\* the condition of the tools= and tool_choice= arguments
ToolsAttached(gathered) == ~Contains(Lower(gathered), ShortPhrase)

UserContent(user_query, gathered) ==
  <<"Here is the user's original query: ">> \o user_query
    \o <<"<DATA_BLOCK>">> \o gathered \o <<"</DATA_BLOCK>">>

\* mutant of ComposeRequest: the second call repeats the Gatherer's call
ComposeRequestRepeatsGather(user_query, conversation_history, gathered) ==
  GatherRequest(user_query, conversation_history)

\* the chat.completions.create call of generate_final_response_with_tools
ComposeRequest(user_query, conversation_history, gathered) ==
  [model |-> "gpt-4o",
   system_prompt |-> IF NoDataMode(gathered) THEN "conversational" ELSE "presentation",
   history |-> IF NoDataMode(gathered)
               THEN LastN(conversation_history, CONTEXT_TURNS) ELSE <<>>,
   user |-> IF NoDataMode(gathered) THEN user_query
            ELSE UserContent(user_query, gathered),
   tools |-> IF ToolsAttached(gathered) THEN ToolList(TOOLS_AVAILABLE) ELSE NoTools,
   tool_choice |-> IF ToolsAttached(gathered) THEN "auto" ELSE "None"]

\* ------------------------------------------------------- Composer result

DefaultResponse ==
  [reply |-> DefaultReply,
   ui_data |-> [component_type |-> "generic_text", data |-> <<>>]]

\* d[key] = val on a dict
SetKey(d, key, val) ==
  [k \in (DOMAIN d) \cup {key} |-> IF k = key THEN val ELSE d[k]]

\* the except branch: reply and ui_data["data"]["error"] overwritten
ComposeFailure(final_response, msg) ==
  [reply |-> ComposeErrorPrefix \o msg,
   ui_data |-> [final_response.ui_data EXCEPT !.data = SetKey(@, "error", msg)]]

\* mutant of ReplyFromContent: the text is passed on with its links
ReplyFromContentRaw(final_response, content) ==
  IF Truthy(content) THEN [final_response EXCEPT !.reply = content.text]
  ELSE final_response

\* `if response_message.content:` the reply is the text with links stripped
ReplyFromContent(final_response, content) ==
  IF Truthy(content) THEN [final_response EXCEPT !.reply = StripLinks(content.text)]
  ELSE final_response

\* mutant of UiDataFromToolCall: the parsed arguments are not passed on
UiDataFromToolCallNoData(function_name, function_args) ==
  [component_type |-> ComponentTypeFor(function_name), data |-> <<>>]

\* final_response["ui_data"] of a tool call
UiDataFromToolCall(function_name, function_args) ==
  [component_type |-> ComponentTypeFor(function_name), data |-> function_args]

\* mutant of WithToolCall: a tool call that does not parse is left out
WithToolCallDropped(final_response, tool_call, content) ==
  LET parsed == JsonLoads(tool_call.arguments) IN
  IF parsed.raised THEN final_response
  ELSE [reply |-> IF Truthy(content) THEN final_response.reply ELSE AckReply,
        ui_data |-> UiDataFromToolCall(tool_call.name, parsed.value)]

\* the tool-call branch, json.loads raising into the except branch
WithToolCall(final_response, tool_call, content) ==
  LET parsed == JsonLoads(tool_call.arguments) IN
  IF parsed.raised THEN ComposeFailure(final_response, parsed.msg)
  ELSE [reply |-> IF Truthy(content) THEN final_response.reply ELSE AckReply,
        ui_data |-> UiDataFromToolCall(tool_call.name, parsed.value)]

\* generate_final_response_with_tools from the await on: the value it
\* returns for an outcome of the provider call
generate_final_response_with_tools(out) ==
  IF out.kind = "raise" THEN ComposeFailure(DefaultResponse, out.msg)
  ELSE LET withText == ReplyFromContent(DefaultResponse, out.content) IN
       IF out.tool_calls # <<>>
       THEN WithToolCall(withText, out.tool_calls[1], out.content)
       ELSE IF Truthy(out.content) THEN withText
            ELSE [withText EXCEPT !.reply = FallbackReply]

\* ------------------------------------------------------- history store

HISTORY_LIMIT == 10

UserTurn(text) == [role |-> "user", content |-> text]
AssistantTurn(text) == [role |-> "assistant", content |-> text]

\* no list object: the id held by a handler that is not running
NoList == 0
\* list objects that can be alive at once: one per user in the store, one
\* per handler in flight, one being built
ListIds == 1..(Cardinality(Users) + MaxInFlight + 1)

\* mutant of Truncate: the slice keeps the whole list
TruncateNothing(current_history) == current_history

\* mutant of Truncate: the slice keeps the oldest turns
TruncateOldest(current_history) ==
  SubSeq(current_history, 1, Min({Len(current_history), HISTORY_LIMIT}))

\* current_history[-HISTORY_LIMIT:]
Truncate(current_history) == LastN(current_history, HISTORY_LIMIT)

\* mutant of AppendTurns: the assistant turn is appended before the user turn
AppendTurnsSwapped(current_history, user_query, final_result) ==
  current_history
    \o (IF final_result.reply # <<>>
        THEN <<AssistantTurn(final_result.reply)>> ELSE <<>>)
    \o <<UserTurn(user_query)>>

\* the two appends of handle_chat, the second under
\* `if final_result and final_result.get("reply")`
AppendTurns(current_history, user_query, final_result) ==
  current_history \o <<UserTurn(user_query)>>
    \o (IF final_result.reply # <<>>
        THEN <<AssistantTurn(final_result.reply)>> ELSE <<>>)

\* ------------------------------------------------------- inputs

Queries == { <<"q1">>, <<"q2">> }

\* request.query: any str, the empty one too
AnyQuery == Queries \cup { <<>> }

ErrorMessages == { <<>>, <<"timeout">> }

\* what the search model may answer
GatherTexts ==
  { <<>>,
    <<"standings">>,
    <<"no data fetching", " is required">>,
    <<"x", "No Data Fetching", " Is Required">>,
    <<"no data fetching", " was done">>,
    <<"Error:", "x">>,
    <<"x", "Error:">> }

GatherOutcomes ==
  { [kind |-> "raise", msg |-> m, content |-> None] : m \in ErrorMessages }
    \cup { [kind |-> "ok", msg |-> <<>>, content |-> None] }
    \cup { [kind |-> "ok", msg |-> <<>>, content |-> Str(t)] : t \in GatherTexts }

\* what the chat model may write
ComposeTexts ==
  { <<>>,
    <<"a">>,
    <<"[", "a", "]", "(", "http://", "u", ")">>,
    <<"[", "]", "(", "https://", ")">>,
    <<"[", "[", "a", "]", "(", "http://", "u", ")", "]", "(", "http://", "v", ")">>,
    <<"[", "a", "\n", "]", "(", "http://", "u", ")">>,
    <<"[", "a", "]", "(", "b", ")", "[", "c", "]", "(", "https://", "d", ")", "e", ")">> }

ArgumentTexts ==
  { [wellformed |-> FALSE, members |-> <<>>],
    [wellformed |-> TRUE, members |-> <<>>],
    [wellformed |-> TRUE, members |-> <<[key |-> "a", val |-> <<"1">>]>>],
    [wellformed |-> TRUE,
     members |-> <<[key |-> "a", val |-> <<"1">>], [key |-> "b", val |-> <<"2">>]>>],
    [wellformed |-> TRUE,
     members |-> <<[key |-> "a", val |-> <<"1">>], [key |-> "a", val |-> <<"2">>]>>] }

ToolNames == { "display_standings_table", "get_team_news", "not_registered" }

ToolCalls == { [name |-> n, arguments |-> a] : n \in ToolNames, a \in ArgumentTexts }

\* the provider answers with a tool call only when the call carried tools
ToolCallLists(call) ==
  IF call.tools.type = "list" THEN { <<>> } \cup { <<tc>> : tc \in ToolCalls }
  ELSE { <<>> }

ComposeOutcomes(call) ==
  { [kind |-> "raise", msg |-> m, content |-> None, tool_calls |-> <<>>] :
      m \in ErrorMessages }
    \cup { [kind |-> "ok", msg |-> <<>>, content |-> c, tool_calls |-> tcs] :
             c \in {None} \cup { Str(t) : t \in ComposeTexts },
             tcs \in ToolCallLists(call) }

\* the outcomes drawn while handlers overlap
FewGatherOutcomes ==
  { [kind |-> "raise", msg |-> <<"timeout">>, content |-> None],
    [kind |-> "ok", msg |-> <<>>, content |-> Str(<<"standings">>)],
    [kind |-> "ok", msg |-> <<>>, content |-> Str(<<"no data fetching", " is required">>)] }

FewComposeOutcomes(call) ==
  { [kind |-> "raise", msg |-> <<"timeout">>, content |-> None, tool_calls |-> <<>>],
    [kind |-> "ok", msg |-> <<>>, content |-> Str(<<"a">>), tool_calls |-> <<>>],
    [kind |-> "ok", msg |-> <<>>, content |-> Str(<<"[", "]", "(", "https://", ")">>),
     tool_calls |-> <<>>] }

\* the outcomes drawn while requests follow one another
SeqGatherOutcomes ==
  { [kind |-> "ok", msg |-> <<>>, content |-> Str(<<"standings">>)] }

SeqComposeOutcomes(call) ==
  { [kind |-> "ok", msg |-> <<>>, content |-> Str(<<"a">>), tool_calls |-> <<>>],
    [kind |-> "ok", msg |-> <<>>, content |-> Str(<<"[", "]", "(", "https://", ")">>),
     tool_calls |-> <<>>] }

NoOutcome == [kind |-> "", msg |-> <<>>, content |-> None, tool_calls |-> <<>>]

\* ------------------------------------------------------- state

VARIABLES
  conversation_histories,  \* user -> id of the list stored for the user, or NoList
  heap,                    \* id -> the turns of that list object
  pc,                      \* handler -> "idle", "gather" (awaiting call 1), "compose" (awaiting call 2)
  user_id,                 \* handler -> request.user_id
  user_query,              \* handler -> request.query
  current_history,         \* handler -> id of the list it holds
  gather_call,             \* handler -> the call sent by the Gatherer
  gather_response,         \* handler -> how the Gatherer's call ended
  gathered_data,           \* handler -> what the Gatherer returned
  compose_call,            \* handler -> the call sent by the Composer
  calls,                   \* handler -> the models of the provider calls it sent, in order
  last,                    \* the response most recently returned by a handler
  served                   \* log of the requests answered so far, in order

vars ==
  << conversation_histories, heap, pc, user_id, user_query, current_history,
     gather_call, gather_response, gathered_data, compose_call, calls, last,
     served >>

NoGatherOutcome == [kind |-> "", msg |-> <<>>, content |-> None]

NoUiData == [component_type |-> "", data |-> <<>>]

NoResponse ==
  [req |-> 0, user |-> "", query |-> <<>>, status |-> 0, reply |-> <<>>,
   ui_data |-> NoUiData, gathered |-> None, call |-> NoCall, out |-> NoOutcome,
   calls |-> <<>>]

\* five earlier exchanges: a history at the cap
SeedHistory ==
  [i \in 1..HISTORY_LIMIT |->
     IF i % 2 = 1 THEN UserTurn(<<"q1">>) ELSE AssistantTurn(<<"a">>)]

InFlight == { r \in Req : pc[r] # "idle" }

\* handlers are interchangeable: a request is given the first idle one
FirstIdle(r) == pc[r] = "idle" /\ \A x \in Req : x < r => pc[x] # "idle"

\* fewer than max requests accepted so far
Accepting(max) == Len(served) + Cardinality(InFlight) < max

\* the list objects still referenced
Live(store, held) ==
  ({ store[u] : u \in Users } \cup { held[r] : r \in Req }) \ {NoList}

Collect(h, store, held) == [id \in (DOMAIN h) \cap Live(store, held) |-> h[id]]

\* the turns stored for a user: conversation_histories.get(user, [])
History(u) ==
  IF conversation_histories[u] = NoList THEN <<>> ELSE heap[conversation_histories[u]]

IdleFrame(r) ==
  /\ pc' = [pc EXCEPT ![r] = "idle"]
  /\ user_id' = [user_id EXCEPT ![r] = ""]
  /\ user_query' = [user_query EXCEPT ![r] = <<>>]
  /\ current_history' = [current_history EXCEPT ![r] = NoList]
  /\ gather_call' = [gather_call EXCEPT ![r] = NoCall]
  /\ gather_response' = [gather_response EXCEPT ![r] = NoGatherOutcome]
  /\ gathered_data' = [gathered_data EXCEPT ![r] = None]
  /\ compose_call' = [compose_call EXCEPT ![r] = NoCall]
  /\ calls' = [calls EXCEPT ![r] = <<>>]

EmptyStore ==
  /\ conversation_histories = [u \in Users |-> NoList]
  /\ heap = <<>>

IdleHandlers ==
  /\ pc = [r \in Req |-> "idle"]
  /\ user_id = [r \in Req |-> ""]
  /\ user_query = [r \in Req |-> <<>>]
  /\ current_history = [r \in Req |-> NoList]
  /\ gather_call = [r \in Req |-> NoCall]
  /\ gather_response = [r \in Req |-> NoGatherOutcome]
  /\ gathered_data = [r \in Req |-> None]
  /\ compose_call = [r \in Req |-> NoCall]
  /\ calls = [r \in Req |-> <<>>]
  /\ last = NoResponse
  /\ served = <<>>

\* the service after start-up
InitEmpty == EmptyStore /\ IdleHandlers

\* the service with nothing in flight, each user new or with a full history
Init ==
  /\ \E full \in SUBSET {"u1"} :
       /\ conversation_histories = [u \in Users |-> IF u \in full THEN 1 ELSE NoList]
       /\ heap = [id \in (IF full = {} THEN {} ELSE {1}) |-> SeedHistory]
  /\ IdleHandlers

\* ------------------------------------------------------- handle_chat

\* mutant of EmptyQuery: every query is taken for an empty one
EmptyQueryAlways(q) == TRUE

\* mutant of EmptyQuery: the check of the query is gone
EmptyQueryNever(q) == FALSE

\* `not request.query`
EmptyQuery(q) == q = <<>>

\* mutant of StoreKey: the histories are kept under one key for all users
StoreKeyShared(u) == "u1"

\* the key of conversation_histories a request of user u reads and writes
StoreKey(u) == u

\* `if not request.query: raise HTTPException(400)`
ReceiveEmptyQuery(r, u, q) ==
  /\ FirstIdle(r)
  /\ EmptyQuery(q)
  /\ last' = [NoResponse EXCEPT !.req = r, !.user = u, !.query = q, !.status = 400,
                                !.reply = <<"Query cannot be empty">>]
  /\ served' = Append(served, [user |-> u, query |-> q, status |-> 400,
                               reply |-> <<"Query cannot be empty">>])
  /\ UNCHANGED << conversation_histories, heap, pc, user_id, user_query,
                  current_history, gather_call, gather_response, gathered_data,
                  compose_call, calls >>

\* handle_chat up to the first await: the history list is fetched (a new
\* empty list for an unknown user) and the Gatherer sends its call
ReceiveChat(r, u, q) ==
  /\ FirstIdle(r)
  /\ ~EmptyQuery(q)
  /\ LET known == conversation_histories[StoreKey(u)] # NoList
         id == IF known THEN conversation_histories[StoreKey(u)]
               ELSE Min(ListIds \ DOMAIN heap)
         turns == IF known THEN heap[id] ELSE <<>>
     IN /\ heap' = [i \in (DOMAIN heap) \cup {id} |-> IF i = id THEN turns ELSE heap[i]]
        /\ current_history' = [current_history EXCEPT ![r] = id]
        /\ gather_call' = [gather_call EXCEPT ![r] = GatherRequest(q, turns)]
        /\ calls' = [calls EXCEPT ![r] = <<GatherRequest(q, turns).model>>]
  /\ pc' = [pc EXCEPT ![r] = "gather"]
  /\ user_id' = [user_id EXCEPT ![r] = u]
  /\ user_query' = [user_query EXCEPT ![r] = q]
  /\ UNCHANGED << conversation_histories, gather_response, gathered_data,
                  compose_call, last, served >>

\* the except branch of handle_chat: nothing was appended
CriticalResponse(r) ==
  [NoResponse EXCEPT
     !.req = r, !.user = user_id[r], !.query = user_query[r], !.status = 200,
     !.reply = CriticalReply,
     !.ui_data = [component_type |-> "generic_text",
                  data |-> SetKey(<<>>, "error", <<"Server error: AttributeError">>)]]

\* the Gatherer's call ends; gather_real_time_data returns and the Composer
\* picks its mode, builds its messages and sends its call.  A gathered_data
\* that is no str makes .lower() raise into handle_chat's except branch.
GatherReturns(r, out) ==
  /\ pc[r] = "gather"
  /\ LET gathered == gather_real_time_data(out) IN
     IF gathered.type = "str"
     THEN /\ gather_response' = [gather_response EXCEPT ![r] = out]
          /\ gathered_data' = [gathered_data EXCEPT ![r] = gathered]
          /\ compose_call' = [compose_call EXCEPT ![r] =
               ComposeRequest(user_query[r], heap[current_history[r]], gathered.text)]
          /\ calls' = [calls EXCEPT ![r] = Append(@, compose_call'[r].model)]
          /\ pc' = [pc EXCEPT ![r] = "compose"]
          /\ UNCHANGED << conversation_histories, heap, user_id, user_query,
                          current_history, gather_call, last, served >>
     ELSE /\ IdleFrame(r)
          /\ heap' = Collect(heap, conversation_histories, current_history')
          /\ last' = [CriticalResponse(r) EXCEPT !.gathered = gathered,
                                                 !.calls = calls[r]]
          /\ served' = Append(served, [user |-> user_id[r], query |-> user_query[r],
                                       status |-> 200, reply |-> CriticalReply])
          /\ UNCHANGED conversation_histories

\* the Composer's call ends; generate_final_response_with_tools returns,
\* handle_chat appends to the list it holds, stores the truncated copy and
\* returns the ChatResponse
ComposeReturns(r, out) ==
  /\ pc[r] = "compose"
  /\ LET final_result == generate_final_response_with_tools(out)
         held == current_history[r]
         appended == AppendTurns(heap[held], user_query[r], final_result)
         new == Min(ListIds \ DOMAIN heap)
         heap2 == [i \in (DOMAIN heap) \cup {new} |->
                     IF i = new THEN Truncate(appended)
                     ELSE IF i = held THEN appended ELSE heap[i]]
     IN /\ conversation_histories' =
             [conversation_histories EXCEPT ![StoreKey(user_id[r])] = new]
        /\ IdleFrame(r)
        /\ heap' = Collect(heap2, conversation_histories', current_history')
        /\ last' = [req |-> r, user |-> user_id[r], query |-> user_query[r],
                    status |-> 200, reply |-> final_result.reply,
                    ui_data |-> final_result.ui_data,
                    gathered |-> gathered_data[r], call |-> compose_call[r],
                    out |-> out, calls |-> calls[r]]
        /\ served' = Append(served, [user |-> user_id[r], query |-> user_query[r],
                                     status |-> 200, reply |-> final_result.reply])

\* handlers overlapping, any interleaving
Next ==
  \/ \E r \in Req, u \in Users, q \in AnyQuery :
       Accepting(MaxRequests) /\ ReceiveEmptyQuery(r, u, q)
  \/ \E r \in Req, u \in Users, q \in AnyQuery :
       Accepting(MaxRequests) /\ ReceiveChat(r, u, q)
  \/ \E r \in Req : \E out \in FewGatherOutcomes : GatherReturns(r, out)
  \/ \E r \in Req : \E out \in FewComposeOutcomes(compose_call[r]) :
       ComposeReturns(r, out)

Spec == Init /\ [][Next]_vars

\* the outcomes drawn where every call must end: it raises or it returns
LiveGatherOutcomes ==
  { [kind |-> "raise", msg |-> <<"timeout">>, content |-> None],
    [kind |-> "ok", msg |-> <<>>, content |-> Str(<<"standings">>)] }

LiveComposeOutcomes(call) ==
  { [kind |-> "raise", msg |-> <<"timeout">>, content |-> None, tool_calls |-> <<>>],
    [kind |-> "ok", msg |-> <<>>, content |-> Str(<<"a">>), tool_calls |-> <<>>] }

\* the Gatherer's call of handler r returns or raises
GatherEnds(r) == \E out \in LiveGatherOutcomes : GatherReturns(r, out)

\* the Composer's call of handler r returns or raises
ComposeEnds(r) == \E out \in LiveComposeOutcomes(compose_call[r]) : ComposeReturns(r, out)

\* handlers overlapping; the client's timeout ends every provider call, so
\* none stays pending for ever
NextLive ==
  \/ \E r \in Req, q \in AnyQuery :
       Accepting(MaxRequests) /\ ReceiveEmptyQuery(r, "u1", q)
  \/ \E r \in Req, q \in AnyQuery :
       Accepting(MaxRequests) /\ ReceiveChat(r, "u1", q)
  \/ \E r \in Req : GatherEnds(r)
  \/ \E r \in Req : ComposeEnds(r)

SpecLive ==
  /\ Init
  /\ [][NextLive]_vars
  /\ \A r \in Req : WF_vars(GatherEnds(r)) /\ WF_vars(ComposeEnds(r))

\* one request, every outcome of the two provider calls
NextService ==
  \/ \E u \in Users, q \in AnyQuery : Accepting(1) /\ ReceiveEmptyQuery(1, u, q)
  \/ \E u \in Users, q \in AnyQuery : Accepting(1) /\ ReceiveChat(1, u, q)
  \/ \E out \in GatherOutcomes : GatherReturns(1, out)
  \/ \E out \in ComposeOutcomes(compose_call[1]) : ComposeReturns(1, out)

SpecService == Init /\ [][NextService]_vars

\* requests of one user one after another, from start-up
NextSeq ==
  \/ \E q \in AnyQuery : Accepting(MaxSeqRequests) /\ ReceiveEmptyQuery(1, "u1", q)
  \/ \E q \in AnyQuery : Accepting(MaxSeqRequests) /\ ReceiveChat(1, "u1", q)
  \/ \E out \in SeqGatherOutcomes : GatherReturns(1, out)
  \/ \E out \in SeqComposeOutcomes(compose_call[1]) : ComposeReturns(1, out)

SpecSeq == InitEmpty /\ [][NextSeq]_vars

\* ------------------------------------------------------- properties

\* a handler returned the Composer's result
Composed == last.status = 200 /\ last.out.kind # ""

\* C1: every result process_user_query returns has a non-empty reply and a
\* ui_data with a non-empty component_type, whatever the two calls did
C1_ReplyAndComponentNonEmpty ==
  Composed => last.reply # <<>> /\ last.ui_data.component_type # ""

\* C2: whenever the Gatherer's output starts with "Error:", the Composer
\* uses the conversational prompt and its call carries no tool definitions
\* and no tool-choice mode
C2_ErrorMeansNoTools ==
  \A r \in Req :
    pc[r] = "compose" /\ StartsWith(gathered_data[r].text, <<"Error:">>) =>
      /\ compose_call[r].system_prompt = "conversational"
      /\ compose_call[r].tools.type # "list"
      /\ compose_call[r].tool_choice # "auto"

HasSentinel(text) == Contains(Lower(text), SentinelPhrase)

\* C3: whenever the Gatherer's output contains "no data fetching is
\* required" in any letter case, the Composer's call carries no tool
\* definitions and the ui_data returned has component_type "generic_text"
C3_SentinelMeansNoToolsGeneric ==
  /\ \A r \in Req :
       pc[r] = "compose" /\ HasSentinel(gathered_data[r].text) =>
         compose_call[r].tools.type # "list"
  /\ Composed /\ HasSentinel(last.gathered.text) =>
       /\ last.call.tools.type # "list"
       /\ last.ui_data.component_type = "generic_text"

\* the sentinel in mixed case went through a Composer call that succeeded
C3_Witness ==
  /\ Composed
  /\ last.out.kind = "ok"
  /\ HasSentinel(last.gathered.text)
  /\ ~Contains(last.gathered.text, SentinelPhrase)
  /\ last.call.system_prompt = "conversational"

\* C4: when the Composer's provider call raises, the result returned has
\* the default apology as its reply, component_type "generic_text" and an
\* "error" field with a non-empty description in ui_data.data
C4_ComposerFailureGivesDefault ==
  Composed /\ last.out.kind = "raise" =>
    /\ last.reply = DefaultReply
    /\ last.ui_data.component_type = "generic_text"
    /\ "error" \in DOMAIN last.ui_data.data
    /\ last.ui_data.data["error"] # <<>>

\* the last member of text ms written with key k
LastMember(ms, k) ==
  ms[CHOOSE i \in DOMAIN ms :
       ms[i].key = k /\ \A j \in DOMAIN ms : ms[j].key = k => j <= i]

\* C5: a tool call named X with well-formed arguments A gives ui_data =
\* {component_type: registry entry of X or "generic_text", data: A}, the
\* fields of data being exactly the members of A
C5_ToolCallRoundTrip ==
  Composed /\ last.out.kind = "ok" /\ last.out.tool_calls # <<>>
    /\ last.out.tool_calls[1].arguments.wellformed =>
      LET X == last.out.tool_calls[1].name
          A == last.out.tool_calls[1].arguments.members
          keys == { A[i].key : i \in DOMAIN A }
          ui == last.ui_data
      IN /\ DOMAIN ui = {"component_type", "data"}
         /\ ui.component_type =
              (IF X \in DOMAIN TOOL_NAME_TO_COMPONENT_TYPE
               THEN TOOL_NAME_TO_COMPONENT_TYPE[X] ELSE "generic_text")
         /\ DOMAIN ui.data = keys
         /\ \A k \in keys : ui.data[k] = LastMember(A, k).val

\* an unregistered tool with two arguments came back as generic_text with both
C5_Witness ==
  /\ Composed
  /\ last.out.tool_calls # <<>>
  /\ last.out.tool_calls[1].name = "not_registered"
  /\ Len(last.out.tool_calls[1].arguments.members) = 2
  /\ last.ui_data.component_type = "generic_text"
  /\ DOMAIN last.ui_data.data = {"a", "b"}

\* the chat requests of user u answered so far, in order
RECURSIVE ChatsOf(_, _)
ChatsOf(log, u) ==
  IF log = <<>> THEN <<>>
  ELSE LET e == log[Len(log)]
           before == ChatsOf(SubSeq(log, 1, Len(log) - 1), u)
       IN IF e.user = u /\ e.status = 200 THEN Append(before, e) ELSE before

\* the turns of a sequence of exchanges, oldest first
RECURSIVE TurnsOf(_)
TurnsOf(chats) ==
  IF chats = <<>> THEN <<>>
  ELSE TurnsOf(SubSeq(chats, 1, Len(chats) - 1))
         \o << [role |-> "user", content |-> chats[Len(chats)].query],
               [role |-> "assistant", content |-> chats[Len(chats)].reply] >>

\* C6: after M chat requests of a user, run one after another and each
\* answered with a reply, the stored history has min(2M, 10) turns: the
\* most recent ones, user and assistant alternating, in the order produced
C6_SequentialHistory ==
  \A u \in Users :
    LET chats == ChatsOf(served, u)
        M == Len(chats)
        turns == TurnsOf(chats)
        h == History(u)
    IN (\A i \in 1..M : chats[i].reply # <<>>) =>
         /\ Len(h) = (IF 2 * M <= 10 THEN 2 * M ELSE 10)
         /\ \A i \in 1..Len(h) : h[i] = turns[Len(turns) - Len(h) + i]
         /\ \A i \in 1..Len(h) :
              h[i].role = (IF i % 2 = 1 THEN "user" ELSE "assistant")

\* six exchanges were answered and the first one, the only one that asked
\* q2, is no longer stored
C6_Witness ==
  LET chats == ChatsOf(served, "u1") IN
  /\ Len(chats) = 6
  /\ \A i \in 1..6 : chats[i].reply # <<>>
  /\ chats[1].query = <<"q2">>
  /\ \A i \in 2..6 : chats[i].query = <<"q1">>
  /\ Len(History("u1")) = 10
  /\ \A i \in 1..10 : History("u1")[i].content # <<"q2">>

\* C7: in every reachable state, whatever the interleaving of the
\* handlers, the history stored for each user has at most 10 turns
C7_HistoryCapped ==
  \A u \in Users : Len(History(u)) <= 10

\* a request of u1 was answered at the cap while another handler of u1
\* still holds the list both started from, grown past the cap
C7_Witness ==
  /\ Composed
  /\ last.user = "u1"
  /\ Len(History("u1")) = 10
  /\ History("u1")[10] = [role |-> "assistant", content |-> last.reply]
  /\ \E r \in Req :
       /\ pc[r] # "idle"
       /\ user_id[r] = "u1"
       /\ Len(heap[current_history[r]]) > 10

\* C8: no request leaves a dangling user turn: in the stored history every
\* user turn is directly followed by an assistant turn
C8_NoDanglingUserTurn ==
  \A u \in Users :
    \A i \in 1..Len(History(u)) :
      History(u)[i].role = "user" =>
        i < Len(History(u)) /\ History(u)[i + 1].role = "assistant"

\* C9: link stripping is idempotent: the reply that comes out of it is
\* left unchanged by a second application
C9_StripIdempotent ==
  Composed /\ last.out.kind = "ok" /\ Truthy(last.out.content) =>
    /\ StripLinks(StripLinks(last.out.content.text)) = StripLinks(last.out.content.text)
    /\ StripLinks(last.reply) = last.reply

\* C10: the Gatherer returns a string for every outcome of its call, and a
\* string that starts with "Error:" when the call raised or had no content;
\* no handler is answered from handle_chat's except branch
C10_GathererReturnsString ==
  /\ \A r \in Req :
       pc[r] = "compose" =>
         /\ gathered_data[r].type = "str"
         /\ (gather_response[r].kind = "raise" \/ gather_response[r].content = None) =>
              StartsWith(gathered_data[r].text, <<"Error:">>)
  /\ last.status = 200 => last.gathered.type = "str" /\ last.reply # CriticalReply

\* a response without content came back as the Error: string of the TypeError
C10_Witness ==
  /\ pc[1] = "compose"
  /\ gather_response[1].kind = "ok"
  /\ gather_response[1].content = None
  /\ gathered_data[1] = Str(GatherErrorPrefix \o NotSubscriptableMsg)

\* C11: every accepted chat request sends exactly two provider calls, the
\* Gatherer's and then the Composer's; the Composer's call is sent only
\* once the Gatherer's call has ended, and no call is repeated after a failure
C11_TwoCallsInOrder ==
  /\ \A r \in Req :
       /\ pc[r] = "gather" =>
            /\ calls[r] = <<"gpt-4o-search-preview">>
            /\ gather_response[r].kind = ""
            /\ compose_call[r] = NoCall
       /\ pc[r] = "compose" =>
            /\ calls[r] = <<"gpt-4o-search-preview", "gpt-4o">>
            /\ gather_response[r].kind \in {"ok", "raise"}
  /\ Composed => last.calls = <<"gpt-4o-search-preview", "gpt-4o">>

\* both calls of a request raised and it still sent two calls
C11_Witness ==
  /\ Composed
  /\ StartsWith(last.gathered.text, <<"Error:">>)
  /\ last.out.kind = "raise"
  /\ Len(last.calls) = 2
  /\ \E r \in Req : pc[r] = "gather"

\* C12: every chat request with a non-empty query is eventually answered
\* with a response that carries a reply and a ui_data object, whatever the
\* two provider calls do; it is never answered with the 400 of an empty query
C12_EveryRequestAnswered ==
  /\ \A r \in Req :
       (pc[r] # "idle") ~>
         (/\ pc[r] = "idle"
          /\ last.req = r
          /\ last.status = 200
          /\ DOMAIN last.ui_data = {"component_type", "data"}
          /\ last.ui_data.component_type # "")
  /\ [](last.status = 400 => last.query = <<>>)

\* a request whose two provider calls both raised was answered
C12_Witness ==
  /\ last.status = 200
  /\ last.query # <<>>
  /\ StartsWith(last.gathered.text, <<"Error:">>)
  /\ last.out.kind = "raise"
  /\ pc[last.req] = "idle"

\* C13: a chat request with an empty query is rejected with the 400 of input
\* validation, never with the 200 that carries an internal failure; it never
\* reaches the Orchestrator (no handler works on an empty query, no provider
\* call is made for it) and rejecting it leaves the history store, and the
\* requests in flight, as they were
C13_EmptyQueryRejected ==
  /\ [](/\ \A r \in Req : pc[r] # "idle" => user_query[r] # <<>>
        /\ (last.status # 0 /\ last.query = <<>>) =>
             /\ last.status = 400
             /\ last.calls = <<>>
             /\ last.reply # CriticalReply
        /\ \A i \in 1..Len(served) :
             served[i].query = <<>> <=> served[i].status = 400)
  /\ [][(Len(served') > Len(served) /\ last'.query = <<>>) =>
          UNCHANGED << conversation_histories, heap, pc, calls, gather_call, compose_call >>]_vars

\* an empty query was rejected while another request of the same user, who
\* has a stored history, was waiting for the provider
C13_Witness ==
  /\ last.status = 400
  /\ last.query = <<>>
  /\ History(last.user) # <<>>
  /\ \E r \in Req : pc[r] = "compose" /\ user_id[r] = last.user

\* C14: the Composer's prompt and the tools of its call agree: when the
\* Gatherer's output neither contains "no data fetching is required" (in any
\* letter case) nor starts with "Error:", the call has the data-presentation
\* prompt, the full tool list and tool choice "auto"; in every other case it
\* has the conversational prompt, no tools and no tool choice
C14_ModeMatchesCall ==
  \A r \in Req :
    pc[r] = "compose" =>
      IF ~HasSentinel(gathered_data[r].text)
           /\ ~StartsWith(gathered_data[r].text, <<"Error:">>)
      THEN /\ compose_call[r].system_prompt = "presentation"
           /\ compose_call[r].tools = ToolList(TOOLS_AVAILABLE)
           /\ compose_call[r].tool_choice = "auto"
      ELSE /\ compose_call[r].system_prompt = "conversational"
           /\ compose_call[r].tools = NoTools
           /\ compose_call[r].tool_choice = "None"

\* C15: when the Composer's provider response has a tool call whose
\* arguments are not well-formed, the Composer returns what it returns when
\* the provider call itself fails with the same message: nothing is raised to
\* the endpoint, the reply is not the model's text, component_type is
\* "generic_text" and ui_data.data has the "error" field and nothing else
C15_MalformedArgumentsAsFailure ==
  Composed /\ last.out.kind = "ok" /\ last.out.tool_calls # <<>>
    /\ ~last.out.tool_calls[1].arguments.wellformed =>
      LET e == JsonLoads(last.out.tool_calls[1].arguments).msg
          failed == [kind |-> "raise", msg |-> e, content |-> None, tool_calls |-> <<>>]
      IN /\ [reply |-> last.reply, ui_data |-> last.ui_data]
              = generate_final_response_with_tools(failed)
         /\ last.reply # CriticalReply
         /\ last.reply = ComposeErrorPrefix \o e
         /\ Truthy(last.out.content) => last.reply # StripLinks(last.out.content.text)
         /\ last.ui_data.component_type = "generic_text"
         /\ DOMAIN last.ui_data.data = {"error"}
         /\ last.ui_data.data["error"] = e
         /\ e # <<>>

\* a registered tool was called with arguments that do not parse, next to text
C15_Witness ==
  /\ Composed
  /\ last.out.kind = "ok"
  /\ last.out.tool_calls # <<>>
  /\ last.out.tool_calls[1].name = "display_standings_table"
  /\ ~last.out.tool_calls[1].arguments.wellformed
  /\ Truthy(last.out.content)
  /\ last.out.content.text = <<"a">>

\* C16: when the Composer's provider call returns (and the arguments of a
\* tool call, if any, parse), the reply is the model's text with links
\* stripped when there is text; the fixed acknowledgment when there is a tool
\* call and no text; "I've processed your request." when there is neither;
\* and never the default apology
C16_ReplyChosenByOutput ==
  Composed /\ last.out.kind = "ok"
    /\ (last.out.tool_calls # <<>> => last.out.tool_calls[1].arguments.wellformed) =>
      /\ last.reply =
           (IF last.out.content.type = "str" /\ last.out.content.text # <<>>
            THEN StripLinks(last.out.content.text)
            ELSE IF last.out.tool_calls # <<>>
                 THEN <<"Certainly! Here is the information you requested.">>
                 ELSE <<"I've processed your request.">>)
      /\ last.reply # DefaultReply

\* text with a link came with a tool call: the reply is the text without the link
C16_Witness ==
  /\ Composed
  /\ last.out.kind = "ok"
  /\ last.out.tool_calls # <<>>
  /\ last.out.tool_calls[1].arguments.wellformed
  /\ last.out.content = Str(<<"[", "a", "]", "(", "http://", "u", ")">>)
  /\ last.reply = <<"a">>

\* C17: no lost updates: once the chat requests of a user, however they
\* overlapped, have all been answered with a reply, the stored history holds
\* the user turn and the assistant turn of each of them, the five most
\* recent at least (the cap of 10 turns), also for a user who had no stored
\* history when they began
C17_NoLostUpdates ==
  \A u \in Users :
    LET chats == ChatsOf(served, u)
        n == Len(chats)
        h == History(u)
    IN (/\ \A r \in Req : pc[r] = "idle" \/ user_id[r] # u
        /\ \A i \in 1..n : chats[i].reply # <<>> /\ chats[i].reply # CriticalReply) =>
         \A i \in 1..n :
           i > n - 5 =>
             \E j \in 1..(Len(h) - 1) :
               /\ h[j] = UserTurn(chats[i].query)
               /\ h[j + 1] = AssistantTurn(chats[i].reply)

\* C18: no interleaved turns: however the chat requests of a user overlap,
\* each assistant turn of the stored history directly follows the user turn
\* of the request it answers (or is a pair that was stored at start-up), and
\* a request answered with a reply leaves its two turns, adjacent, at the
\* end of the stored history
C18_TurnsAdjacent ==
  /\ \A u \in Users :
       LET h == History(u) IN
       \A i \in 2..Len(h) :
         h[i].role = "assistant" =>
           /\ h[i - 1].role = "user"
           /\ \/ \E k \in 1..Len(served) :
                   /\ served[k].user = u
                   /\ served[k].status = 200
                   /\ served[k].query = h[i - 1].content
                   /\ served[k].reply = h[i].content
              \/ \E k \in 1..(HISTORY_LIMIT \div 2) :
                   h[i - 1] = SeedHistory[2 * k - 1] /\ h[i] = SeedHistory[2 * k]
  /\ Composed /\ last.reply # <<>> =>
       LET h == History(last.user) IN
       /\ Len(h) >= 2
       /\ h[Len(h) - 1] = UserTurn(last.query)
       /\ h[Len(h)] = AssistantTurn(last.reply)

\* a request of u1 was answered while another request of u1, with another
\* query, waits for the Composer holding the very list the turns went to
C18_Witness ==
  /\ Composed
  /\ last.user = "u1"
  /\ last.reply # <<>>
  /\ History("u1")[Len(History("u1"))] = AssistantTurn(last.reply)
  /\ \E r \in Req :
       /\ pc[r] = "compose"
       /\ user_id[r] = "u1"
       /\ user_query[r] # last.query
       /\ Len(heap[current_history[r]]) = HISTORY_LIMIT + 2
       /\ heap[current_history[r]][HISTORY_LIMIT + 1] = UserTurn(last.query)

\* C19: requests of different users are independent: the stored history of
\* a user V changes only in the step that answers a chat request of V; the
\* history handed to the Orchestrator for U is the stored history of U (its
\* last 6 turns go to the Gatherer); and the list a request of U works on is
\* neither the list stored for another user nor the list of a request of
\* another user
C19_UsersIndependent ==
  /\ [][\A v \in Users :
          History(v)' # History(v) =>
            /\ Len(served') = Len(served) + 1
            /\ last'.user = v
            /\ last'.status = 200]_vars
  /\ [][\A r \in Req :
          (pc[r] = "idle" /\ pc'[r] = "gather") =>
            /\ heap'[current_history'[r]] = History(user_id'[r])
            /\ gather_call'[r].history = LastN(History(user_id'[r]), CONTEXT_TURNS)]_vars
  /\ [](\A r \in Req :
          pc[r] # "idle" =>
            /\ \A v \in Users \ {user_id[r]} :
                 conversation_histories[v] # current_history[r]
            /\ \A x \in Req :
                 (pc[x] # "idle" /\ user_id[x] # user_id[r]) =>
                   current_history[x] # current_history[r])

\* a request of u2 was answered while a request of u1 is in flight, and the
\* history stored for u1 is still the one from before
C19_Witness ==
  /\ Composed
  /\ last.user = "u2"
  /\ History("u2") # <<>>
  /\ History("u1") = SeedHistory
  /\ \E r \in Req : pc[r] = "compose" /\ user_id[r] = "u1"

\* C20: within one request in no-data mode the Composer's call carries the
\* history window the Gatherer's call carried, the last min(6, length) turns
\* of the history the request started with, whatever other requests of the
\* same user do in between
C20_SameHistoryWindow ==
  \A r \in Req :
    pc[r] = "compose" /\ compose_call[r].system_prompt = "conversational" =>
      compose_call[r].history = gather_call[r].history

====
